---- MODULE Spec2Model ----
(***************************************************************************)
(* CharCoin keep-alive bot (src/bot.py): the keep-alive decision and       *)
(* execution loop -- activity detection, the rolling 24 h spend guard, the *)
(* primary / fallback buy policy and the forced-buy one-shot path.         *)
(*                                                                         *)
(* Units.  USD amounts are integers in cents (0.30 USD = 30).  For the     *)
(* amounts drawn in Init the guard's float comparison and the integer      *)
(* comparison agree.  Time is in hours since process start; the wall clock *)
(* only moves forward, except under SpecSkew, where it can be set back.    *)
(*                                                                         *)
(* Specifications.  Spec / FairSpec: the whole loop.  SpecSkew: the loop   *)
(* under an adjustable wall clock.  SpecActivity: has_no_trades_last_x     *)
(* alone.  SpecHttp: one http_get / http_post call, attempt by attempt.    *)
(* SpecQuote: get_usd_to_input_mint_amount alone, computed as the source   *)
(* computes it, in binary floating point (53-bit significand, every        *)
(* operation rounded to nearest, ties to even).                            *)
(***************************************************************************)
EXTENDS Integers, Sequences, FiniteSets, TLC

VARIABLES
    DRY_RUN,            \* bot.py:59
    TEST_MODE,          \* bot.py:60
    FORCE_BUY_NOW,      \* bot.py:61
    MOCK_INACTIVE,      \* bot.py:62
    MICRO_BUY_USD,      \* bot.py:51  (cents)
    FALLBACK_BUY_USD,   \* bot.py:52  (cents)
    MAX_DAILY_USD,      \* bot.py:56  (cents)
    last_spend_events,  \* bot.py:237 the spend ledger, a sequence of [ts, amount]
    now,                \* datetime.now(timezone.utc), hours since start
    pc,                 \* position of the single thread of control
    attempt,            \* which do_keepalive_once call is running / ran last
    usd_amount,         \* argument of the running do_keepalive_once
    sig,                \* value returned by the last do_keepalive_once ("none" if it raised)
    err,                \* exception raised by the last do_keepalive_once ("none" if none)
    data,               \* local `data` of has_no_trades_last_x
    mins,               \* argument `mins` of has_no_trades_last_x
    verdict,            \* value of has_no_trades_last_x in this cycle
    calls,              \* observer: calls made in the current cycle, per operation
    cycle_events,       \* observer: the ledger as it was when the cycle began
    fallback_gate,      \* observer: value of the condition of bot.py:288 in this cycle
    primary_err,        \* observer: exception the primary attempt of this cycle raised
    streak,             \* observer: number of cycles so far, all of them inactive with a
                        \*           successful primary buy (-1 once one was not)
    h_method,           \* the running wrapper: "GET" (http_get) or "POST" (http_post)
    h_pc,               \* position inside the running http_get / http_post
    last_status,        \* bot.py:73 / :88
    last_text,          \* bot.py:73 / :88
    h_result,           \* value returned by the wrapper ("none" until it returns)
    h_error,            \* status and body carried by the RuntimeError of bot.py:85 / :100
    h_requests,         \* observer: requests issued by the running wrapper call
    h_sleeps,           \* observer: time.sleep(1) calls made by the running wrapper call
    h_log,              \* observer: what each request of the call gave, in order
    outAmount,          \* quote["outAmount"] of the probe quote (bot.py:143)
    amt_raw,            \* value returned by get_usd_to_input_mint_amount (0 until it returns)
    wallet_log,         \* observer: outcome of each wallet check made (key match and
                        \*           balance query, bot.py:157-169), in order
    trace               \* observer: the steps of the running / last do_keepalive_once
                        \*           call with their outcomes, in order

config == <<DRY_RUN, TEST_MODE, FORCE_BUY_NOW, MOCK_INACTIVE,
            MICRO_BUY_USD, FALLBACK_BUY_USD, MAX_DAILY_USD>>
monitor == <<data, mins, verdict>>
cycle_obs == <<cycle_events, fallback_gate, primary_err>>
observers == <<calls, cycle_obs, streak>>
http == <<h_method, h_pc, last_status, last_text, h_result, h_error,
          h_requests, h_sleeps, h_log>>
quoteconv == <<outAmount, amt_raw>>
aux == <<http, quoteconv>>
vars == <<config, last_spend_events, now, pc, attempt, usd_amount, sig, err,
          monitor, observers, aux, wallet_log, trace>>

----------------------------------------------------------------------------
(* Bounds of the model *)

\* hours by which one clock step advances `now`
TickHours == 12
\* the clock stops advancing here
MaxTime == 36
\* the streak counter saturates here
MaxStreak == 4
\* largest buys / sells count of a bucket
MaxCount == 3
\* longest market-data list
MaxEntries == 2

(* Program constants *)

\* timedelta(hours=24)
Day == 24
\* window = 1 if TEST_MODE else 1440
TestWindow == 1
ProdWindow == 1440

\* MAX_RETRIES (bot.py:55)
MAX_RETRIES == 3

\* configured amounts, in cents
MicroChoices == {30, 50}
FallbackChoices == {30, 50}
CapChoices == {40, 100}

----------------------------------------------------------------------------
(* Spend guard, bot.py:237-250 *)

SpendEvent(t, amount) == [ts |-> t, amount |-> amount]

RECURSIVE SumAmounts(_)
\* sum(a for _, a in _last_spend_events)
SumAmounts(events) ==
    IF events = <<>> THEN 0 ELSE Head(events).amount + SumAmounts(Tail(events))

\* cutoff = datetime.now(timezone.utc) - timedelta(hours=24)
Cutoff(t) == t - Day

RECURSIVE PruneExpired(_, _)
\* while _last_spend_events and _last_spend_events[0][0] < cutoff: pop(0)
PruneExpired(events, cutoff) ==
    IF events # <<>> /\ Head(events).ts < cutoff
    THEN PruneExpired(Tail(events), cutoff)
    ELSE events

\* the guard compares the ledger alone with the cap
SpendOkIgnoringAmount(pruned, amount, cap) == SumAmounts(pruned) <= cap

\* ok = (spent + amount) <= MAX_DAILY_USD, on the pruned ledger
SpendOk(pruned, amount, cap) == SumAmounts(pruned) + amount <= cap

\* can_spend_usd: the ledger it leaves and the value it returns
can_spend_usd(events, amount, t, cap) ==
    LET pruned == PruneExpired(events, Cutoff(t))
    IN  [events |-> pruned, ok |-> SpendOk(pruned, amount, cap)]

\* the event is not kept
record_spend_usd_dropped(events, amount, t) == events

\* record_spend_usd: the ledger it leaves
record_spend_usd(events, amount, t) == Append(events, SpendEvent(t, amount))

----------------------------------------------------------------------------
(* Market-data response, as has_no_trades_last_x reads it (bot.py:108-121). *)
(* kind "missing": the key is absent (dict.get returns its default);        *)
(* kind "bad": a value of the wrong type (no .get method / int() rejects).  *)

MissingC == [kind |-> "missing", val |-> 0]
BadC == [kind |-> "bad", val |-> 0]
IntC(n) == [kind |-> "int", val |-> n]

MissingB == [kind |-> "missing", buys |-> MissingC, sells |-> MissingC]
BadB == [kind |-> "bad", buys |-> MissingC, sells |-> MissingC]
Bkt(b, s) == [kind |-> "dict", buys |-> b, sells |-> s]

MissingT == [kind |-> "missing", m5 |-> MissingB, h1 |-> MissingB, h24 |-> MissingB]
BadT == [kind |-> "bad", m5 |-> MissingB, h1 |-> MissingB, h24 |-> MissingB]
Tx(b5, b60, b1440) == [kind |-> "dict", m5 |-> b5, h1 |-> b60, h24 |-> b1440]

BadE == [kind |-> "bad", txns |-> MissingT]
Ent(t) == [kind |-> "dict", txns |-> t]

NoData == [kind |-> "none", items |-> <<>>]
NotList == [kind |-> "notlist", items |-> <<>>]
List(items) == [kind |-> "list", items |-> items]

\* the window bounds are compared with < instead of <=
BucketKeyStrict(m) == IF m < 5 THEN "m5" ELSE IF m < 60 THEN "h1" ELSE "h24"

\* the bucket the window size selects (bot.py:114-119)
BucketKey(m) == IF m <= 5 THEN "m5" ELSE IF m <= 60 THEN "h1" ELSE "h24"

\* txns.get(key, {})
GetBucket(txns, key) ==
    IF key = "m5" THEN txns.m5 ELSE IF key = "h1" THEN txns.h1 ELSE txns.h24

\* int(bucket.get(field, 0)) for a count that int() accepts
CountOf(c) == IF c.kind = "int" THEN c.val ELSE 0

\* one iteration of `for p in data` (bot.py:113-121): whether it raises, and
\* what it adds to total_buys / total_sells
EntryCounts(p, m) ==
    IF p.kind = "bad" \/ p.txns.kind = "bad"
    THEN [raises |-> TRUE, buys |-> 0, sells |-> 0]
    ELSE LET bucket == IF p.txns.kind = "missing" THEN MissingB
                       ELSE GetBucket(p.txns, BucketKey(m))
         IN  IF bucket.kind = "bad" \/ bucket.buys.kind = "bad"
                \/ bucket.sells.kind = "bad"
             THEN [raises |-> TRUE, buys |-> 0, sells |-> 0]
             ELSE [raises |-> FALSE, buys |-> CountOf(bucket.buys),
                   sells |-> CountOf(bucket.sells)]

RECURSIVE SumEntries(_, _, _, _)
\* the loop of bot.py:111-121 from total_buys = b, total_sells = s on
SumEntries(items, m, b, s) ==
    IF items = <<>> THEN [raises |-> FALSE, buys |-> b, sells |-> s]
    ELSE LET e == EntryCounts(Head(items), m)
         IN  IF e.raises THEN [raises |-> TRUE, buys |-> b, sells |-> s]
             ELSE SumEntries(Tail(items), m, b + e.buys, s + e.sells)

\* has_no_trades_last_x on the response `d` of http_get (bot.py:105-123):
\* "TRUE", "FALSE", or "RAISE" when an exception leaves the function
has_no_trades_last_x(mock, d, m) ==
    IF mock THEN "TRUE"
    ELSE IF d.kind # "list" \/ d.items = <<>> THEN "TRUE"
    ELSE LET t == SumEntries(d.items, m, 0, 0)
         IN  IF t.raises THEN "RAISE"
             ELSE IF (t.buys + t.sells) = 0 THEN "TRUE" ELSE "FALSE"

\* window = 1 if TEST_MODE else 1440 (bot.py:126)
Window(test_mode) == IF test_mode THEN TestWindow ELSE ProdWindow

\* the negation of bot.py:127 is lost
activity_ok_not_negated(no_trades) ==
    IF no_trades = "RAISE" THEN "RAISE"
    ELSE IF no_trades = "TRUE" THEN "OK" ELSE "INACTIVE"

\* activity_ok (bot.py:125-129): "OK", "INACTIVE", or "RAISE"
activity_ok(no_trades) ==
    IF no_trades = "RAISE" THEN "RAISE"
    ELSE IF no_trades = "TRUE" THEN "INACTIVE" ELSE "OK"

(* The responses the market-data endpoint may give *)

CountVals == {MissingC, BadC} \cup {IntC(n) : n \in 0..MaxCount}
\* buckets in which at most one of the two counts is not the plain 0
BucketVals ==
    {BadB} \cup {Bkt(c, IntC(0)) : c \in CountVals}
           \cup {Bkt(IntC(0), c) : c \in CountVals}
\* txns with at most one bucket present
TxnsVals ==
    {MissingT, BadT, Tx(MissingB, MissingB, MissingB)}
      \cup {Tx(b, MissingB, MissingB) : b \in BucketVals}
      \cup {Tx(MissingB, b, MissingB) : b \in BucketVals}
      \cup {Tx(MissingB, MissingB, b) : b \in BucketVals}
EntryVals == {BadE} \cup {Ent(t) : t \in TxnsVals}
RECURSIVE ListsUpTo(_)
ListsUpTo(n) ==
    IF n = 0 THEN {<<>>}
    ELSE LET shorter == ListsUpTo(n - 1)
         IN  shorter \cup {Append(l, e) : l \in {x \in shorter : Len(x) = n - 1},
                                           e \in EntryVals}
Responses == {NotList} \cup {List(l) : l \in ListsUpTo(MaxEntries)}
MinsChoices == {1, 5, 6, 60, 61, 1440}

\* the responses drawn in the keep-alive loop: one of each shape
MarketFeed ==
    { NotList,
      List(<<>>),
      List(<<BadE>>),
      List(<<Ent(MissingT)>>),
      List(<<Ent(BadT)>>),
      List(<<Ent(Tx(MissingB, MissingB, BadB))>>),
      List(<<Ent(Tx(MissingB, MissingB, Bkt(BadC, IntC(0))))>>),
      List(<<Ent(Tx(MissingB, MissingB, Bkt(IntC(0), IntC(0))))>>),
      List(<<Ent(Tx(MissingB, MissingB, Bkt(IntC(3), IntC(0))))>>),
      List(<<Ent(Tx(Bkt(IntC(0), IntC(1)), MissingB, MissingB))>>),
      List(<<Ent(Tx(MissingB, Bkt(IntC(1), IntC(0)), MissingB)),
             Ent(Tx(MissingB, MissingB, Bkt(IntC(0), MissingC)))>>) }

----------------------------------------------------------------------------
(* The HTTP wrappers http_get / http_post, bot.py:72-100 *)

\* last_status, last_text = None, None (bot.py:73 / :88)
NoError == [status |-> "None", text |-> "None"]

\* no wrapper call is being followed
HttpIdle ==
    /\ h_method = "none"
    /\ h_pc = "idle"
    /\ last_status = "None"
    /\ last_text = "None"
    /\ h_result = "none"
    /\ h_error = NoError
    /\ h_requests = 0
    /\ h_sleeps = 0
    /\ h_log = <<>>

----------------------------------------------------------------------------
(* Quote converter get_usd_to_input_mint_amount, bot.py:134-149 *)

(* Binary floating point.  A float is sign-free here: [m, e] stands for
   m * 2^e, m a natural number of at most 53 bits held as a sequence of
   limbs, least significant first (the empty sequence is 0).  Every
   operation of the source on floats is the exact result rounded to 53 bits,
   ties to even. *)

\* bits of a limb, and 2^LimbBits, 2^(LimbBits - 1)
LimbBits == 15
LimbBase == 32768
HalfLimb == 16384
\* bits of the significand of a float
MantissaBits == 53

RECURSIVE BNorm(_)
\* x without its leading zero limbs
BNorm(x) ==
    IF x = <<>> THEN <<>>
    ELSE IF x[Len(x)] = 0 THEN BNorm(SubSeq(x, 1, Len(x) - 1)) ELSE x

RECURSIVE BFromInt(_)
BFromInt(n) ==
    IF n = 0 THEN <<>> ELSE <<n % LimbBase>> \o BFromInt(n \div LimbBase)

RECURSIVE BToInt(_)
BToInt(x) == IF x = <<>> THEN 0 ELSE x[1] + LimbBase * BToInt(Tail(x))

RECURSIVE BCmpFrom(_, _, _)
BCmpFrom(x, y, i) ==
    IF i = 0 THEN 0
    ELSE IF x[i] > y[i] THEN 1
    ELSE IF x[i] < y[i] THEN 0 - 1
    ELSE BCmpFrom(x, y, i - 1)

\* -1, 0, 1 as x < y, x = y, x > y
BCmp(x, y) ==
    IF Len(x) > Len(y) THEN 1
    ELSE IF Len(x) < Len(y) THEN 0 - 1
    ELSE BCmpFrom(x, y, Len(x))

RECURSIVE BMulSmall(_, _, _)
\* x * k + c for 1 <= k < LimbBase, 0 <= c < LimbBase
BMulSmall(x, k, c) ==
    IF x = <<>> THEN (IF c = 0 THEN <<>> ELSE <<c>>)
    ELSE LET t == x[1] * k + c
         IN  <<t % LimbBase>> \o BMulSmall(Tail(x), k, t \div LimbBase)

RECURSIVE BAdd(_, _, _)
\* x + y + c
BAdd(x, y, c) ==
    IF x = <<>> /\ y = <<>> THEN (IF c = 0 THEN <<>> ELSE <<c>>)
    ELSE LET t == (IF x = <<>> THEN 0 ELSE x[1]) + (IF y = <<>> THEN 0 ELSE y[1]) + c
         IN  <<t % LimbBase>>
             \o BAdd(IF x = <<>> THEN <<>> ELSE Tail(x),
                     IF y = <<>> THEN <<>> ELSE Tail(y), t \div LimbBase)

RECURSIVE BSubLimbs(_, _, _)
BSubLimbs(x, y, b) ==
    IF x = <<>> THEN <<>>
    ELSE LET t == x[1] - (IF y = <<>> THEN 0 ELSE y[1]) - b
         IN  <<IF t < 0 THEN t + LimbBase ELSE t>>
             \o BSubLimbs(Tail(x), IF y = <<>> THEN <<>> ELSE Tail(y),
                          IF t < 0 THEN 1 ELSE 0)

\* x - y for x >= y
BSub(x, y) == BNorm(BSubLimbs(x, y, 0))

RECURSIVE BMul(_, _)
BMul(x, y) ==
    IF x = <<>> \/ y = <<>> THEN <<>>
    ELSE BAdd(IF y[1] = 0 THEN <<>> ELSE BMulSmall(x, y[1], 0),
              IF Tail(y) = <<>> THEN <<>> ELSE <<0>> \o BMul(x, Tail(y)), 0)

\* x \div 2
BHalf(x) ==
    IF x = <<>> THEN <<>>
    ELSE BNorm([i \in 1..Len(x) |->
                  x[i] \div 2 + (IF i < Len(x) THEN (x[i + 1] % 2) * HalfLimb ELSE 0)])

RECURSIVE BShl(_, _)
\* x * 2^k
BShl(x, k) ==
    IF x = <<>> \/ k = 0 THEN x
    ELSE IF k >= LimbBits THEN <<0>> \o BShl(x, k - LimbBits)
    ELSE BShl(BMulSmall(x, 2, 0), k - 1)

RECURSIVE BShr(_, _)
\* x \div 2^k
BShr(x, k) ==
    IF x = <<>> \/ k = 0 THEN x
    ELSE IF k >= LimbBits THEN BShr(Tail(x), k - LimbBits)
    ELSE BShr(BHalf(x), k - 1)

RECURSIVE BitLenInt(_)
BitLenInt(n) == IF n = 0 THEN 0 ELSE 1 + BitLenInt(n \div 2)

\* number of bits of x
BBitLen(x) ==
    IF x = <<>> THEN 0 ELSE LimbBits * (Len(x) - 1) + BitLenInt(x[Len(x)])

\* the value of F at v, v being computed once
Eval(v, F(_)) == CHOOSE r \in {F(x) : x \in {v}} : TRUE

\* x * k for 0 <= k < LimbBase
BTimes(x, k) == IF k = 0 THEN <<>> ELSE BMulSmall(x, k, 0)

RECURSIVE DigitSearch(_, _, _, _)
\* the d with d * b <= r < (d + 1) * b, given lo * b <= r < hi * b
DigitSearch(r, b, lo, hi) ==
    IF hi - lo = 1 THEN lo
    ELSE Eval((lo + hi) \div 2,
              LAMBDA mid : IF BCmp(BTimes(b, mid), r) <= 0
                           THEN DigitSearch(r, b, mid, hi)
                           ELSE DigitSearch(r, b, lo, mid))

\* quotient and remainder of a = a2 * LimbBase + limb by b, from those (h) of
\* a2 by b
DivStep(h, limb, b) ==
    Eval(BNorm(<<limb>> \o h.r),
         LAMBDA r2 :
            Eval(DigitSearch(r2, b, 0, LimbBase),
                 LAMBDA d : [q |-> BNorm(<<d>> \o h.q),
                             r |-> BSub(r2, BTimes(b, d))]))

RECURSIVE BDivMod(_, _)
\* quotient and remainder of a by b > 0: long division, one limb at a time
BDivMod(a, b) ==
    IF a = <<>> THEN [q |-> <<>>, r |-> <<>>]
    ELSE Eval(BDivMod(Tail(a), b), LAMBDA h : DivStep(h, a[1], b))

FZero == [m |-> <<>>, e |-> 0]

\* the float nearest to (a / b) * 2^e, ties to even, for naturals a and b > 0:
\* the quotient is taken with two or three bits beyond the significand, which
\* with the remainder decide the rounding
RoundQuotient(dm, e) ==
    LET x == BBitLen(dm.q) - MantissaBits
        low == dm.q[1] % (2 ^ x)
        half == 2 ^ (x - 1)
    IN  Eval(BShr(dm.q, x),
             LAMBDA m0 :
                [m |-> IF \/ low > half
                          \/ low = half /\ (dm.r # <<>> \/ m0[1] % 2 = 1)
                       THEN BAdd(m0, <<1>>, 0) ELSE m0,
                 e |-> e + x])

RoundRatioOf(a, b, e) ==
    IF a = <<>> THEN FZero
    ELSE LET s == MantissaBits + 2 + BBitLen(b) - BBitLen(a)
         IN  Eval(BDivMod(IF s >= 0 THEN BShl(a, s) ELSE a,
                          IF s >= 0 THEN b ELSE BShl(b, 0 - s)),
                  LAMBDA dm : RoundQuotient(dm, e - s))

RoundRatio(a, b, e) ==
    Eval(<<a, b>>, LAMBDA ab : RoundRatioOf(ab[1], ab[2], e))

\* float(n) for a natural n below 2^31, and the float a / b of two such
\* integers (also float("c/100") of a two-decimal literal)
FFromInt(n) == [m |-> BFromInt(n), e |-> 0]
FFromRatio(a, b) == RoundRatio(BFromInt(a), BFromInt(b), 0)
\* x * y and x / y on floats
FMulOf(x, y) == RoundRatio(BMul(x.m, y.m), <<1>>, x.e + y.e)
FMul(x, y) == Eval(<<x, y>>, LAMBDA xy : FMulOf(xy[1], xy[2]))
FDivOf(x, y) == RoundRatio(x.m, y.m, x.e - y.e)
FDiv(x, y) == Eval(<<x, y>>, LAMBDA xy : FDivOf(xy[1], xy[2]))
\* x < y
FLess(x, y) ==
    IF x.e >= y.e THEN BCmp(BShl(x.m, x.e - y.e), y.m) < 0
    ELSE BCmp(x.m, BShl(y.m, y.e - x.e)) < 0
\* max(x, y)
FMax(x, y) == Eval(<<x, y>>, LAMBDA xy : IF FLess(xy[1], xy[2]) THEN xy[2] ELSE xy[1])
\* int(x)
FTruncOf(x) ==
    IF x.e >= 0 THEN BToInt(BShl(x.m, x.e)) ELSE BToInt(BShr(x.m, 0 - x.e))
FTrunc(x) == Eval(x, LAMBDA v : FTruncOf(v))

\* lamports_per_sol = 1_000_000_000 (bot.py:136)
lamports_per_sol == 1000000000
\* the divisor 1_000_000 of bot.py:144 and the factor 1000.0 of bot.py:145
MicroUnits == 1000000
PerSolFactor == 1000
\* the floor 0.01 of usd_per_sol (bot.py:145), as the ratio 1 / 100
PriceFloorDen == 100
\* cents in a dollar: usd_target is float("<cents / 100>")
CentsPerUsd == 100

\* the result is not raised to 1
ClampOff(lamports) == lamports

\* max(1, lamports) (bot.py:149)
Clamp(lamports) == IF lamports >= 1 THEN lamports ELSE 1

\* get_usd_to_input_mint_amount(usd_target) when the probe quote answers with
\* outAmount = out; usd_cents is usd_target in cents.  The floats of
\* bot.py:144-147 are computed as the source computes them, operation by
\* operation; a sign is carried apart (a price that is not positive is below
\* the floor, a negative target gives the negated magnitude).
get_usd_to_input_mint_amount(usd_cents, out) ==
    LET usd_target == FFromRatio(IF usd_cents >= 0 THEN usd_cents ELSE 0 - usd_cents,
                                 CentsPerUsd)
        floor == FFromRatio(1, PriceFloorDen)
        usdc_for_001_sol == FFromRatio(out, MicroUnits)
        usd_per_sol == IF out <= 0 THEN floor
                       ELSE FMax(FMul(usdc_for_001_sol, FFromInt(PerSolFactor)), floor)
        sol_for_target == FDiv(usd_target, usd_per_sol)
        magnitude == FTrunc(FMul(sol_for_target, FFromInt(lamports_per_sol)))
        lamports == IF usd_cents >= 0 THEN magnitude ELSE 0 - magnitude
    IN  Clamp(lamports)

\* no converter call is being followed
QuoteIdle ==
    /\ outAmount = 0
    /\ amt_raw = 0

----------------------------------------------------------------------------
(* The keep-alive loop, bot.py:255-297 *)

Ops == {"do_keepalive_once", "can_spend_usd", "quote_get", "route_get",
        "swap_post", "send_raw_transaction", "record_spend_usd"}
NoCalls == [o \in Ops |-> 0]
Called(op) == [calls EXCEPT ![op] = @ + 1]
Called2(op1, op2) == [calls EXCEPT ![op1] = @ + 1, ![op2] = @ + 1]
\* one step of do_keepalive_once and how it ended
Step(op, res) == [op |-> op, res |-> res]

\* the spend is recorded in simulation mode too
ShouldRecordAlways(dry_run) == TRUE

\* if not DRY_RUN (bot.py:260)
ShouldRecord(dry_run) == ~dry_run

\* the fallback is tried whatever the two amounts
FallbackWantedAlways(micro, fallback) == TRUE

\* MICRO_BUY_USD < FALLBACK_BUY_USD (bot.py:288)
FallbackWanted(micro, fallback) == micro < fallback

\* streak after a cycle that ended, `clean` telling whether the monitor
\* reported inactive and the primary attempt returned
StreakAfter(clean) ==
    IF clean /\ streak >= 0
    THEN (IF streak < MaxStreak THEN streak + 1 ELSE MaxStreak)
    ELSE -1

Init ==
    /\ DRY_RUN \in BOOLEAN
    /\ TEST_MODE \in BOOLEAN
    /\ FORCE_BUY_NOW \in BOOLEAN
    /\ MOCK_INACTIVE \in BOOLEAN
    /\ MICRO_BUY_USD \in MicroChoices
    /\ FALLBACK_BUY_USD \in FallbackChoices
    /\ MAX_DAILY_USD \in CapChoices
    /\ last_spend_events = <<>>
    /\ now = 0
    /\ pc = "start"
    /\ attempt = "none"
    /\ usd_amount = 0
    /\ sig = "none"
    /\ err = "none"
    /\ data = NoData
    /\ mins = 0
    /\ verdict = "NONE"
    /\ calls = NoCalls
    /\ cycle_events = <<>>
    /\ fallback_gate = "none"
    /\ primary_err = "none"
    /\ streak = 0
    /\ HttpIdle
    /\ wallet_log = <<>>
    /\ trace = <<>>
    /\ QuoteIdle

\* a failed wallet check does not stop the process
EnsureWalletReadyNotFatal(ready) ==
    /\ pc = "start"
    /\ pc' = IF FORCE_BUY_NOW THEN "forced" ELSE "check"
    /\ wallet_log' = IF DRY_RUN THEN wallet_log
                     ELSE Append(wallet_log, IF ready THEN "ok" ELSE "failed")
    /\ UNCHANGED <<config, aux, trace, last_spend_events, now, attempt, usd_amount,
                   sig, err, monitor, observers>>

\* ensure_wallet_ready (bot.py:154-170, called at :267); `ready` is whether
\* the keys are configured and match and the balance query answers.  With
\* DRY_RUN the function returns before any of these checks (bot.py:155-157).
EnsureWalletReady(ready) ==
    /\ pc = "start"
    /\ pc' = IF DRY_RUN \/ ready
             THEN (IF FORCE_BUY_NOW THEN "forced" ELSE "check")
             ELSE "aborted"
    /\ wallet_log' = IF DRY_RUN THEN wallet_log
                     ELSE Append(wallet_log, IF ready THEN "ok" ELSE "failed")
    /\ UNCHANGED <<config, aux, trace, last_spend_events, now, attempt, usd_amount,
                   sig, err, monitor, observers>>

\* every attempt is made with the micro amount
EnterKeepaliveMicro(kind, amount) ==
    /\ attempt' = kind
    /\ usd_amount' = MICRO_BUY_USD
    /\ sig' = "none"
    /\ err' = "none"
    /\ trace' = <<>>
    /\ pc' = "admit"

\* the call do_keepalive_once(amount) made as attempt `kind`: its entry
EnterKeepalive(kind, amount) ==
    /\ attempt' = kind
    /\ usd_amount' = amount
    /\ sig' = "none"
    /\ err' = "none"
    /\ trace' = <<>>
    /\ pc' = "admit"

\* if FORCE_BUY_NOW: do_keepalive_once(MICRO_BUY_USD) (bot.py:269-271)
ForceBuyNow ==
    /\ pc = "forced"
    /\ EnterKeepalive("forced", MICRO_BUY_USD)
    /\ calls' = Called("do_keepalive_once")
    /\ UNCHANGED <<config, aux, wallet_log, last_spend_events, now, monitor, cycle_obs, streak>>

\* the branch of bot.py:279-297 on the value of has_no_trades_last_x
AfterActivityCheck(no_trades) ==
    /\ verdict' = no_trades
    /\ IF activity_ok(no_trades) = "INACTIVE"
       THEN /\ EnterKeepalive("primary", MICRO_BUY_USD)
            /\ calls' = Called("do_keepalive_once")
            /\ streak' = streak
       ELSE /\ pc' = "sleep"
            /\ streak' = StreakAfter(FALSE)
            /\ UNCHANGED <<attempt, usd_amount, sig, err, calls, trace>>

\* activity_ok with MOCK_INACTIVE set: no request is made (bot.py:106-107)
ActivityMocked ==
    /\ pc = "check"
    /\ MOCK_INACTIVE
    /\ mins' = Window(TEST_MODE)
    /\ data' = NoData
    /\ AfterActivityCheck(has_no_trades_last_x(MOCK_INACTIVE, NoData, Window(TEST_MODE)))
    /\ UNCHANGED <<config, aux, wallet_log, last_spend_events, now, cycle_obs>>

\* data = http_get(DEX_TOKENS_API) answers with `resp` (bot.py:108)
FetchMarketData(resp) ==
    /\ pc = "check"
    /\ ~MOCK_INACTIVE
    /\ mins' = Window(TEST_MODE)
    /\ data' = resp
    /\ pc' = "classify"
    /\ UNCHANGED <<config, aux, wallet_log, trace, last_spend_events, now, attempt, usd_amount, sig, err,
                   verdict, observers>>

\* http_get(DEX_TOKENS_API) raises: the exception leaves activity_ok and is
\* caught at bot.py:295
FetchMarketDataFails ==
    /\ pc = "check"
    /\ ~MOCK_INACTIVE
    /\ mins' = Window(TEST_MODE)
    /\ data' = NoData
    /\ AfterActivityCheck("RAISE")
    /\ UNCHANGED <<config, aux, wallet_log, last_spend_events, now, cycle_obs>>

\* the rest of has_no_trades_last_x and activity_ok on the response
\* (bot.py:109-129), then the branch of the loop
ClassifyActivity ==
    /\ pc = "classify"
    /\ AfterActivityCheck(has_no_trades_last_x(MOCK_INACTIVE, data, mins))
    /\ data' = NoData
    /\ mins' = mins
    /\ UNCHANGED <<config, aux, wallet_log, last_spend_events, now, cycle_obs>>

\* do_keepalive_once raises: control reaches the handler of the calling try
Raise(e) ==
    /\ err' = e
    /\ sig' = "none"
    /\ pc' = "failed"

\* a rejection by the guard does not stop the attempt
AdmitNotEnforced ==
    /\ pc = "admit"
    /\ LET r == can_spend_usd(last_spend_events, usd_amount, now, MAX_DAILY_USD)
       IN  /\ last_spend_events' = r.events
           /\ pc' = "convert" /\ UNCHANGED <<sig, err>>
           /\ trace' = Append(trace, Step("can_spend_usd", IF r.ok THEN "ok" ELSE "reject"))
    /\ calls' = Called("can_spend_usd")
    /\ UNCHANGED <<config, aux, wallet_log, now, attempt, usd_amount, monitor, cycle_obs, streak>>

\* if not can_spend_usd(usd_amount): raise (bot.py:256-257)
Admit ==
    /\ pc = "admit"
    /\ LET r == can_spend_usd(last_spend_events, usd_amount, now, MAX_DAILY_USD)
       IN  /\ last_spend_events' = r.events
           /\ IF r.ok THEN pc' = "convert" /\ UNCHANGED <<sig, err>>
              ELSE Raise("cap")
           /\ trace' = Append(trace, Step("can_spend_usd", IF r.ok THEN "ok" ELSE "reject"))
    /\ calls' = Called("can_spend_usd")
    /\ UNCHANGED <<config, aux, wallet_log, now, attempt, usd_amount, monitor, cycle_obs, streak>>

\* amt_raw = get_usd_to_input_mint_amount(usd_amount) (bot.py:258): the probe
\* quote GET answers (`ok`) or the call raises
QuoteConvert(ok) ==
    /\ pc = "convert"
    /\ IF ok THEN pc' = "route" /\ UNCHANGED <<sig, err>>
       ELSE Raise("quote")
    /\ calls' = Called("quote_get")
    /\ trace' = Append(trace, Step("quote_get", IF ok THEN "ok" ELSE "fail"))
    /\ UNCHANGED <<config, aux, wallet_log, last_spend_events, now, attempt, usd_amount, monitor,
                   cycle_obs, streak>>

\* build_and_send_swap, the route quote and the DRY_RUN return (bot.py:176-188)
RouteQuote(ok) ==
    /\ pc = "route"
    /\ IF ~ok THEN Raise("route")
       ELSE IF DRY_RUN THEN /\ sig' = "dryrun-sig"
                            /\ pc' = "return"
                            /\ err' = err
       ELSE pc' = "swap_build" /\ UNCHANGED <<sig, err>>
    /\ calls' = Called("route_get")
    /\ trace' = Append(trace, Step("route_get", IF ok THEN "ok" ELSE "fail"))
    /\ UNCHANGED <<config, aux, wallet_log, last_spend_events, now, attempt, usd_amount, monitor,
                   cycle_obs, streak>>

\* a swap-build response without a payload is not rejected
SwapBuildUnchecked(outcome) ==
    /\ pc = "swap_build"
    /\ IF outcome # "http_fail" THEN pc' = "submit" /\ UNCHANGED <<sig, err>>
       ELSE Raise(outcome)
    /\ calls' = Called("swap_post")
    /\ trace' = Append(trace, Step("swap_post", outcome))
    /\ UNCHANGED <<config, aux, wallet_log, last_spend_events, now, attempt, usd_amount, monitor,
                   cycle_obs, streak>>

\* swap = http_post(JUP_SWAP_API, swap_req); tx_b64 = swap.get("swapTransaction")
\* (bot.py:190-202); outcome "payload", "no_tx" or "http_fail"
SwapBuild(outcome) ==
    /\ pc = "swap_build"
    /\ IF outcome = "payload" THEN pc' = "submit" /\ UNCHANGED <<sig, err>>
       ELSE Raise(outcome)
    /\ calls' = Called("swap_post")
    /\ trace' = Append(trace, Step("swap_post", outcome))
    /\ UNCHANGED <<config, aux, wallet_log, last_spend_events, now, attempt, usd_amount, monitor,
                   cycle_obs, streak>>

\* decode and sign (bot.py:214-226), client.send_raw_transaction (:227),
\* sig_str (:228-232); outcome "sign_fail" (decoding the payload or signing
\* raises: nothing is submitted), "sig" (an identifier came back), "no_sig"
\* or "send_fail" (the submission raises)
SignAndSend(outcome) ==
    /\ pc = "submit"
    /\ IF outcome = "sig" THEN /\ sig' = "tx-sig"
                               /\ pc' = "return"
                               /\ err' = err
       ELSE Raise(outcome)
    /\ IF outcome = "sign_fail"
       THEN /\ calls' = calls
            /\ trace' = Append(trace, Step("sign", "fail"))
       ELSE /\ calls' = Called("send_raw_transaction")
            /\ trace' = Append(trace, Step("send_raw_transaction", outcome))
    /\ UNCHANGED <<config, aux, wallet_log, last_spend_events, now, attempt, usd_amount, monitor,
                   cycle_obs, streak>>

\* the attempt raises after it recorded its spend
RecordThenRaise ==
    /\ pc = "return"
    /\ IF ShouldRecord(DRY_RUN)
       THEN /\ last_spend_events' = record_spend_usd(last_spend_events, usd_amount, now)
            /\ calls' = Called("record_spend_usd")
            /\ trace' = Append(trace, Step("record_spend_usd", "ok"))
       ELSE UNCHANGED <<last_spend_events, calls, trace>>
    /\ pc' = "failed"
    /\ streak' = streak
    /\ UNCHANGED <<config, aux, wallet_log, now, attempt, usd_amount, sig, err, monitor,
                   cycle_obs>>

\* if not DRY_RUN: record_spend_usd(usd_amount); return sig (bot.py:260-262),
\* then the caller: return (bot.py:275) or the sleep of the loop
RecordAndReturn ==
    /\ pc = "return"
    /\ IF ShouldRecord(DRY_RUN)
       THEN /\ last_spend_events' = record_spend_usd(last_spend_events, usd_amount, now)
            /\ calls' = Called("record_spend_usd")
            /\ trace' = Append(trace, Step("record_spend_usd", "ok"))
       ELSE UNCHANGED <<last_spend_events, calls, trace>>
    /\ pc' = IF attempt = "forced" THEN "exited" ELSE "sleep"
    /\ streak' = StreakAfter(attempt = "primary")
    /\ UNCHANGED <<config, aux, wallet_log, now, attempt, usd_amount, sig, err, monitor,
                   cycle_obs>>

\* the return of bot.py:275 is missing: control falls into the loop
ForcedFailedNoReturn ==
    /\ pc = "failed"
    /\ attempt = "forced"
    /\ pc' = "check"
    /\ streak' = StreakAfter(FALSE)
    /\ UNCHANGED <<config, aux, wallet_log, trace, last_spend_events, now, attempt, usd_amount, sig, err,
                   monitor, calls, cycle_obs>>

\* except of the forced buy (bot.py:273-275)
ForcedFailed ==
    /\ pc = "failed"
    /\ attempt = "forced"
    /\ pc' = "exited"
    /\ streak' = StreakAfter(FALSE)
    /\ UNCHANGED <<config, aux, wallet_log, trace, last_spend_events, now, attempt, usd_amount, sig, err,
                   monitor, calls, cycle_obs>>

\* the fallback is attempted without the admission check of bot.py:288
PrimaryFailedNoGuard ==
    /\ pc = "failed"
    /\ attempt = "primary"
    /\ primary_err' = err
    /\ IF FallbackWanted(MICRO_BUY_USD, FALLBACK_BUY_USD)
       THEN LET r == can_spend_usd(last_spend_events, FALLBACK_BUY_USD, now,
                                   MAX_DAILY_USD)
            IN  /\ last_spend_events' = r.events
                /\ fallback_gate' = IF r.ok THEN "open" ELSE "shut"
                /\ IF TRUE
                   THEN /\ EnterKeepalive("fallback", FALLBACK_BUY_USD)
                        /\ calls' = Called2("can_spend_usd", "do_keepalive_once")
                        /\ streak' = streak
                   ELSE /\ pc' = "sleep"
                        /\ calls' = Called("can_spend_usd")
                        /\ streak' = StreakAfter(FALSE)
                        /\ UNCHANGED <<attempt, usd_amount, sig, err, trace>>
       ELSE /\ pc' = "sleep"
            /\ fallback_gate' = "shut"
            /\ streak' = StreakAfter(FALSE)
            /\ UNCHANGED <<last_spend_events, attempt, usd_amount, sig, err, calls,
                           trace>>
    /\ UNCHANGED <<config, aux, wallet_log, now, monitor, cycle_events>>

\* except of the primary attempt (bot.py:286-291): the condition of :288 and,
\* when it holds, the fallback call
PrimaryFailed ==
    /\ pc = "failed"
    /\ attempt = "primary"
    /\ primary_err' = err
    /\ IF FallbackWanted(MICRO_BUY_USD, FALLBACK_BUY_USD)
       THEN LET r == can_spend_usd(last_spend_events, FALLBACK_BUY_USD, now,
                                   MAX_DAILY_USD)
            IN  /\ last_spend_events' = r.events
                /\ fallback_gate' = IF r.ok THEN "open" ELSE "shut"
                /\ IF r.ok
                   THEN /\ EnterKeepalive("fallback", FALLBACK_BUY_USD)
                        /\ calls' = Called2("can_spend_usd", "do_keepalive_once")
                        /\ streak' = streak
                   ELSE /\ pc' = "sleep"
                        /\ calls' = Called("can_spend_usd")
                        /\ streak' = StreakAfter(FALSE)
                        /\ UNCHANGED <<attempt, usd_amount, sig, err, trace>>
       ELSE /\ pc' = "sleep"
            /\ fallback_gate' = "shut"
            /\ streak' = StreakAfter(FALSE)
            /\ UNCHANGED <<last_spend_events, attempt, usd_amount, sig, err, calls,
                           trace>>
    /\ UNCHANGED <<config, aux, wallet_log, now, monitor, cycle_events>>

\* the fallback call is not wrapped in a try: its exception ends the process
FallbackFailedUncaught ==
    /\ pc = "failed"
    /\ attempt = "fallback"
    /\ pc' = "exited"
    /\ streak' = StreakAfter(FALSE)
    /\ UNCHANGED <<config, aux, wallet_log, trace, last_spend_events, now, attempt, usd_amount, sig, err,
                   monitor, calls, cycle_obs>>

\* except of the fallback attempt (bot.py:293-294)
FallbackFailed ==
    /\ pc = "failed"
    /\ attempt = "fallback"
    /\ pc' = "sleep"
    /\ streak' = StreakAfter(FALSE)
    /\ UNCHANGED <<config, aux, wallet_log, trace, last_spend_events, now, attempt, usd_amount, sig, err,
                   monitor, calls, cycle_obs>>

\* time.sleep(CHECK_INTERVAL_SECONDS) and the next `while True` iteration
\* (bot.py:297, :277); the observers start over for the new cycle
Sleep ==
    /\ pc = "sleep"
    /\ pc' = "check"
    /\ attempt' = "none"
    /\ usd_amount' = 0
    /\ sig' = "none"
    /\ err' = "none"
    /\ verdict' = "NONE"
    /\ calls' = NoCalls
    /\ trace' = <<>>
    /\ cycle_events' = last_spend_events
    /\ fallback_gate' = "none"
    /\ primary_err' = "none"
    /\ UNCHANGED <<config, aux, wallet_log, last_spend_events, now, data, mins, streak>>

\* the wall clock advances while the process runs (blocking network calls,
\* the sleep)
Tick ==
    /\ pc \notin {"exited", "aborted"}
    /\ now + TickHours <= MaxTime
    /\ now' = now + TickHours
    /\ UNCHANGED <<config, aux, wallet_log, trace, last_spend_events, pc, attempt, usd_amount, sig, err,
                   monitor, observers>>

\* the steps of the single thread of control
ProgramStep ==
    \/ \E ready \in BOOLEAN : EnsureWalletReady(ready)
    \/ ForceBuyNow
    \/ ActivityMocked
    \/ \E resp \in MarketFeed : FetchMarketData(resp)
    \/ FetchMarketDataFails
    \/ ClassifyActivity
    \/ Admit
    \/ \E ok \in BOOLEAN : QuoteConvert(ok)
    \/ \E ok \in BOOLEAN : RouteQuote(ok)
    \/ \E outcome \in {"payload", "no_tx", "http_fail"} : SwapBuild(outcome)
    \/ \E outcome \in {"sign_fail", "sig", "no_sig", "send_fail"} : SignAndSend(outcome)
    \/ RecordAndReturn
    \/ ForcedFailed
    \/ PrimaryFailed
    \/ FallbackFailed
    \/ Sleep

Next == ProgramStep \/ Tick

Spec == Init /\ [][Next]_vars

\* the thread always executes its next statement: every call it makes blocks
\* for a bounded time (request timeouts, a finite sleep)
FairSpec == Spec /\ WF_vars(ProgramStep)

----------------------------------------------------------------------------
(* The loop under a wall clock that can be set back *)

\* datetime.now(timezone.utc) reads the system's real-time clock, which an
\* adjustment (NTP step, operator) can set back between two readings
ClockStepBack ==
    /\ pc \notin {"exited", "aborted"}
    /\ now >= TickHours
    /\ now' = now - TickHours
    /\ UNCHANGED <<config, aux, wallet_log, trace, last_spend_events, pc, attempt, usd_amount,
                   sig, err, monitor, observers>>

NextSkew == Next \/ ClockStepBack

SpecSkew == Init /\ [][NextSkew]_vars

----------------------------------------------------------------------------
(* has_no_trades_last_x alone, on every response and window size *)

InitActivity ==
    /\ DRY_RUN = FALSE
    /\ TEST_MODE = FALSE
    /\ FORCE_BUY_NOW = FALSE
    /\ MOCK_INACTIVE \in BOOLEAN
    /\ MICRO_BUY_USD = 30
    /\ FALLBACK_BUY_USD = 50
    /\ MAX_DAILY_USD = 100
    /\ last_spend_events = <<>>
    /\ now = 0
    /\ pc = "fn_call"
    /\ attempt = "none"
    /\ usd_amount = 0
    /\ sig = "none"
    /\ err = "none"
    /\ data \in Responses
    /\ mins \in MinsChoices
    /\ verdict = "NONE"
    /\ calls = NoCalls
    /\ cycle_events = <<>>
    /\ fallback_gate = "none"
    /\ primary_err = "none"
    /\ streak = 0
    /\ HttpIdle
    /\ wallet_log = <<>>
    /\ trace = <<>>
    /\ QuoteIdle

\* has_no_trades_last_x(mins) on the response `data`
CallHasNoTrades ==
    /\ pc = "fn_call"
    /\ verdict' = has_no_trades_last_x(MOCK_INACTIVE, data, mins)
    /\ pc' = "fn_done"
    /\ UNCHANGED <<config, aux, wallet_log, trace, last_spend_events, now, attempt, usd_amount, sig, err,
                   data, mins, observers>>

NextActivity == CallHasNoTrades

SpecActivity == InitActivity /\ [][NextActivity]_vars

----------------------------------------------------------------------------
(* http_get / http_post alone, on every sequence of attempt outcomes *)

\* what one requests.get / requests.post call can give: a response with a
\* status, a body and whether the body parses as JSON, or an exception
HttpStatuses == {"200", "429", "500"}
HttpBodies == {"a", "b"}
HttpExceptions == {"timeout", "refused"}
HttpResponse(status, text, json) ==
    [kind |-> "response", status |-> status, text |-> text, json |-> json]
HttpException(e) ==
    [kind |-> "exception", status |-> "EXC", text |-> e, json |-> FALSE]
HttpOutcomes ==
    {HttpResponse(s, b, j) : s \in HttpStatuses, b \in HttpBodies, j \in BOOLEAN}
    \cup {HttpException(e) : e \in HttpExceptions}

\* str(e) of the exception r.json() raises on a body that does not parse
JsonError == "JSONDecodeError"

\* the attempt returns whenever the body parses, whatever the status
AttemptReturnsAnyStatus(r) == r.kind = "response" /\ r.json

\* the attempt reaches `return r.json()` and r.json() returns
\* (bot.py:77-78 / :92-93)
AttemptReturns(r) == r.kind = "response" /\ r.status = "200" /\ r.json

\* last_status, last_text after a failed attempt: bot.py:79 / :94 for a
\* status other than 200, bot.py:82 / :97 for an exception, r.json()'s included
LastOf(r) ==
    IF r.kind = "response" /\ r.status # "200"
    THEN [status |-> r.status, text |-> r.text]
    ELSE [status |-> "EXC",
          text |-> IF r.kind = "exception" THEN r.text ELSE JsonError]

InitHttp ==
    /\ DRY_RUN = FALSE
    /\ TEST_MODE = FALSE
    /\ FORCE_BUY_NOW = FALSE
    /\ MOCK_INACTIVE = FALSE
    /\ MICRO_BUY_USD = 30
    /\ FALLBACK_BUY_USD = 50
    /\ MAX_DAILY_USD = 100
    /\ last_spend_events = <<>>
    /\ now = 0
    /\ pc = "http_call"
    /\ attempt = "none"
    /\ usd_amount = 0
    /\ sig = "none"
    /\ err = "none"
    /\ data = NoData
    /\ mins = 0
    /\ verdict = "NONE"
    /\ calls = NoCalls
    /\ cycle_events = <<>>
    /\ fallback_gate = "none"
    /\ primary_err = "none"
    /\ streak = 0
    /\ h_method \in {"GET", "POST"}
    /\ h_pc = "request"
    /\ last_status = "None"
    /\ last_text = "None"
    /\ h_result = "none"
    /\ h_error = NoError
    /\ h_requests = 0
    /\ h_sleeps = 0
    /\ h_log = <<>>
    /\ QuoteIdle
    /\ wallet_log = <<>>
    /\ trace = <<>>

loop_state == <<config, last_spend_events, now, pc, attempt, usd_amount, sig, err,
                monitor, observers, wallet_log, trace>>

\* one iteration of the loop up to its sleep (bot.py:75-83 / :90-98): the
\* request gives r
HttpAttempt(r) ==
    /\ h_pc = "request"
    /\ h_requests' = h_requests + 1
    /\ h_log' = Append(h_log, r)
    /\ IF AttemptReturns(r)
       THEN /\ h_pc' = "returned"
            /\ h_result' = r.text
            /\ UNCHANGED <<last_status, last_text>>
       ELSE /\ h_pc' = "sleep"
            /\ last_status' = LastOf(r).status
            /\ last_text' = LastOf(r).text
            /\ UNCHANGED h_result
    /\ UNCHANGED <<loop_state, quoteconv, h_method, h_error, h_sleeps>>

\* time.sleep(1) ending a failed iteration (bot.py:84 / :99), then the next
\* iteration of `for _ in range(MAX_RETRIES)` or the end of the loop
HttpSleep ==
    /\ h_pc = "sleep"
    /\ h_sleeps' = h_sleeps + 1
    /\ h_pc' = IF h_requests < MAX_RETRIES THEN "request" ELSE "raise"
    /\ UNCHANGED <<loop_state, quoteconv, h_method, last_status, last_text, h_result,
                   h_error, h_requests, h_log>>

\* raise RuntimeError(... status={last_status} body={last_text}) (bot.py:85 / :100)
HttpRaise ==
    /\ h_pc = "raise"
    /\ h_pc' = "raised"
    /\ h_error' = [status |-> last_status, text |-> last_text]
    /\ UNCHANGED <<loop_state, quoteconv, h_method, last_status, last_text, h_result,
                   h_requests, h_sleeps, h_log>>

NextHttp ==
    \/ \E r \in HttpOutcomes : HttpAttempt(r)
    \/ HttpSleep
    \/ HttpRaise

SpecHttp == InitHttp /\ [][NextHttp]_vars

----------------------------------------------------------------------------
(* get_usd_to_input_mint_amount alone, on every target and probe answer *)

\* decimal digits of 1_000_000_000
LamportsDigits == 9
\* the price floor of 0.01 USD per SOL as a probe answer (micro-USDC for a
\* thousandth of a SOL)
PriceFloorMilli == 10

RECURSIVE ScaledRem(_, _, _)
\* (a * 10^k) % d
ScaledRem(a, d, k) ==
    IF k = 0 THEN a % d ELSE (ScaledRem(a, d, k - 1) * 10) % d

RECURSIVE ScaledDiv(_, _, _)
\* (a * 10^k) \div d for a >= 0, one decimal digit at a time
ScaledDiv(a, d, k) ==
    IF k = 0 THEN a \div d
    ELSE ScaledDiv(a, d, k - 1) * 10 + (ScaledRem(a, d, k - 1) * 10) \div d

\* target amounts in cents: the configured ones, the smallest ones, zero and
\* a negative one
QuoteTargets == {0 - 30, 0, 1, 2, 30, 50}
\* probe outAmount values: negative, zero, around the price floor, ordinary
\* prices (150000 is 150 USD per SOL), prices at which the float quotient of
\* 0.30 USD falls just below a whole number of lamports (200, 156250, 187500,
\* 192000) and very large ones
QuoteOuts == {0 - 5, 0, 1, 9, 10, 11, 150, 200, 250, 1000, 99999, 150000,
              150001, 156250, 187500, 192000, 200000, 1234567, 100000000,
              200000000}
\* the pairs whose result is below 2^31, so that it is a model integer
QuoteInputs ==
    {p \in QuoteTargets \X QuoteOuts :
        5 * (IF p[1] >= 0 THEN p[1] ELSE 0 - p[1])
            <= (IF p[2] >= PriceFloorMilli THEN p[2] ELSE PriceFloorMilli)}

InitQuote ==
    /\ DRY_RUN \in BOOLEAN
    /\ TEST_MODE \in BOOLEAN
    /\ FORCE_BUY_NOW = FALSE
    /\ MOCK_INACTIVE = FALSE
    /\ MICRO_BUY_USD = 30
    /\ FALLBACK_BUY_USD = 50
    /\ MAX_DAILY_USD = 100
    /\ last_spend_events = <<>>
    /\ now \in {0, Day}
    /\ pc = "quote_call"
    /\ attempt = "none"
    /\ \E p \in QuoteInputs : usd_amount = p[1] /\ outAmount = p[2]
    /\ amt_raw = 0
    /\ sig = "none"
    /\ err = "none"
    /\ data = NoData
    /\ mins = 0
    /\ verdict = "NONE"
    /\ calls = NoCalls
    /\ cycle_events = <<>>
    /\ fallback_gate = "none"
    /\ primary_err = "none"
    /\ streak = 0
    /\ HttpIdle
    /\ wallet_log = <<>>
    /\ trace = <<>>

\* amt_raw = get_usd_to_input_mint_amount(usd_amount) (bot.py:258)
CallQuoteConverter ==
    /\ pc = "quote_call"
    /\ amt_raw' = get_usd_to_input_mint_amount(usd_amount, outAmount)
    /\ pc' = "quote_done"
    /\ UNCHANGED <<config, last_spend_events, now, attempt, usd_amount, sig, err,
                   monitor, observers, http, outAmount, wallet_log,
                   trace>>

NextQuote == CallQuoteConverter

SpecQuote == InitQuote /\ [][NextQuote]_vars

----------------------------------------------------------------------------
(* Properties *)

RECURSIVE TrailingSum(_, _)
\* sum of the amounts of the events of `events` not older than 24 hours at t
TrailingSum(events, t) ==
    IF events = <<>> THEN 0
    ELSE (IF t - Head(events).ts <= Day THEN Head(events).amount ELSE 0)
         + TrailingSum(Tail(events), t)

\* a is what is left of b after events were popped from its front
IsSuffix(a, b) ==
    /\ Len(a) <= Len(b)
    /\ a = SubSeq(b, Len(b) - Len(a) + 1, Len(b))

\* positions inside do_keepalive_once after the admission check
AfterAdmission == {"convert", "route", "swap_build", "submit", "return", "failed"}
\* the last do_keepalive_once is over (it returned or raised)
AttemptOver == attempt # "none" /\ pc \in {"failed", "sleep", "exited"}
\* exceptions build_and_send_swap raises
SwapStageErrs == {"route", "http_fail", "no_tx", "sign_fail", "send_fail", "no_sig"}

\* C1: whenever a spend was recorded in the current cycle -- immediately
\* after record_spend_usd and for the rest of the cycle -- the amounts of the
\* ledger events of the trailing 24 hours sum to at most MAX_DAILY_USD.
C1_DailyCap ==
    calls["record_spend_usd"] > 0
        => TrailingSum(last_spend_events, now) <= MAX_DAILY_USD

\* C1 witness: a fallback buy was just recorded on top of an earlier event and
\* the trailing sum sits exactly at the cap.
C1_Witness ==
    /\ calls["record_spend_usd"] = 1
    /\ attempt = "fallback"
    /\ Len(last_spend_events) >= 2
    /\ TrailingSum(last_spend_events, now) = MAX_DAILY_USD

\* C2 as stated: with DRY_RUN set, every do_keepalive_once that passed
\* admission returns "dryrun-sig"; no swap-build POST, no submission, no
\* record_spend_usd; the ledger stays empty.
C2_Original ==
    DRY_RUN =>
        /\ (AttemptOver /\ err # "cap" => sig = "dryrun-sig")
        /\ calls["swap_post"] = 0
        /\ calls["send_raw_transaction"] = 0
        /\ calls["record_spend_usd"] = 0
        /\ last_spend_events = <<>>

\* C2 amended: with DRY_RUN set, every do_keepalive_once that passed admission
\* either returns "dryrun-sig" or raises because one of its two quote requests
\* failed; nothing else is ever returned; no swap-build POST, no submission, no
\* record_spend_usd; the ledger stays empty.
C2_Simulation ==
    DRY_RUN =>
        /\ (AttemptOver /\ err # "cap"
                => \/ sig = "dryrun-sig" /\ err = "none"
                   \/ sig = "none" /\ err \in {"quote", "route"})
        /\ sig \in {"none", "dryrun-sig"}
        /\ calls["swap_post"] = 0
        /\ calls["send_raw_transaction"] = 0
        /\ calls["record_spend_usd"] = 0
        /\ last_spend_events = <<>>

\* C2 witness: a simulated fallback buy returned the sentinel and the cycle
\* ended.
C2_Witness ==
    /\ DRY_RUN
    /\ pc = "sleep"
    /\ attempt = "fallback"
    /\ sig = "dryrun-sig"

\* scenario 1: cap 1.00, micro-buy 0.30, a real run, still within 24 hours of
\* the start with an initially empty ledger
Scenario1 ==
    /\ ~DRY_RUN
    /\ ~FORCE_BUY_NOW
    /\ MAX_DAILY_USD = 100
    /\ MICRO_BUY_USD = 30
    /\ now <= Day

\* C3 as stated: in scenario 1, after cycles that were all inactive with a
\* successful primary buy, the primary buys of cycles 1 and 2 are admitted
\* and the primary buy of cycle 3 is rejected by the guard.
C3_Original ==
    Scenario1 /\ attempt = "primary" /\ pc \in AfterAdmission
        => /\ streak \in {0, 1} => err # "cap"
           /\ streak = 2 => err = "cap"

\* C3 amended: in scenario 1 (DRY_RUN unset) the primary buys of cycles 1, 2
\* and 3 are admitted and recorded (the ledger then holds one 0.30 event per
\* completed cycle) and the primary buy of cycle 4 is rejected by the guard.
C3_Scenario1 ==
    Scenario1 /\ streak >= 0
        => /\ streak <= 3
           /\ Len(last_spend_events) = streak
           /\ \A i \in 1..Len(last_spend_events) :
                  last_spend_events[i].amount = MICRO_BUY_USD
           /\ attempt = "primary" /\ pc \in AfterAdmission
                  => /\ streak \in {0, 1, 2} => err # "cap"
                     /\ streak = 3 => err = "cap"

\* C3 witness: three buys recorded, the fourth primary attempt rejected.
C3_Witness ==
    /\ Scenario1
    /\ streak = 3
    /\ attempt = "primary"
    /\ pc = "failed"
    /\ err = "cap"
    /\ SumAmounts(last_spend_events) = 90

\* the cycle ended after a primary failure at the swap stage, with the
\* condition of bot.py:288 true and no service call of the fallback failing
Scenario2 ==
    /\ pc = "sleep"
    /\ verdict = "TRUE"
    /\ primary_err \in SwapStageErrs
    /\ MICRO_BUY_USD < FALLBACK_BUY_USD
    /\ fallback_gate = "open"
    /\ err \notin SwapStageErrs \cup {"quote"}

\* what scenario 2 promises: the fallback returned a confirmation identifier
\* and the ledger gained exactly one event, of amount FALLBACK_BUY_USD
Scenario2Outcome ==
    /\ attempt = "fallback"
    /\ err = "none"
    /\ sig = "tx-sig"
    /\ calls["record_spend_usd"] = 1
    /\ last_spend_events # <<>>
    /\ LET n == Len(last_spend_events)
       IN  /\ last_spend_events[n].amount = FALLBACK_BUY_USD
           /\ IsSuffix(SubSeq(last_spend_events, 1, n - 1), cycle_events)

\* C4 as stated: scenario 2 ends with the fallback's confirmation identifier
\* as the result and exactly one FALLBACK_BUY_USD event appended.
C4_Original == Scenario2 => Scenario2Outcome

\* C4 amended: the same with DRY_RUN unset.
C4_Fallback == ~DRY_RUN /\ Scenario2 => Scenario2Outcome

\* C4 witness: the swap-build of the primary gave no payload, the fallback
\* went through and was recorded.
C4_Witness ==
    /\ ~DRY_RUN
    /\ Scenario2
    /\ primary_err = "no_tx"
    /\ sig = "tx-sig"
    /\ Len(last_spend_events) = 2

\* C5: in a cycle in which the monitor reports active there is no admission
\* check, no quote request, no swap, no record_spend_usd, and the ledger is
\* as it was when the cycle began.
C5_NoActionWhenActive ==
    verdict = "FALSE"
        => /\ calls = NoCalls
           /\ attempt = "none"
           /\ pc = "sleep"
           /\ last_spend_events = cycle_events

\* C5 witness: the monitor reported active (h24 window) in a cycle that
\* began with a non-empty ledger.
C5_Witness ==
    /\ verdict = "FALSE"
    /\ mins = ProdWindow
    /\ pc = "sleep"
    /\ last_spend_events # <<>>

\* the bucket the window size stands for
SelectedBucket(m) ==
    CASE m <= 5 -> "m5"
      [] m > 5 /\ m <= 60 -> "h1"
      [] OTHER -> "h24"

\* buys + sells of bucket `key` of entry p, an absent field counting 0
BucketActivity(p, key) ==
    LET b == p.txns[key]
    IN  (IF b.buys.kind = "int" THEN b.buys.val ELSE 0)
        + (IF b.sells.kind = "int" THEN b.sells.val ELSE 0)

RECURSIVE TotalActivity(_, _)
TotalActivity(items, key) ==
    IF items = <<>> THEN 0
    ELSE BucketActivity(Head(items), key) + TotalActivity(Tail(items), key)

\* no ill-typed value lies on the path to the counts of bucket `key` of p
ReadsCleanly(p, key) ==
    /\ p.kind = "dict"
    /\ p.txns.kind # "bad"
    /\ p.txns[key].kind # "bad"
    /\ p.txns[key].buys.kind # "bad"
    /\ p.txns[key].sells.kind # "bad"

\* some field on the path to the counts of bucket `key` of p is absent or
\* ill-typed
EntryMalformed(p, key) ==
    \/ p.kind = "bad"
    \/ p.txns.kind # "dict"
    \/ p.txns[key].kind # "dict"
    \/ p.txns[key].buys.kind # "int"
    \/ p.txns[key].sells.kind # "int"

\* the response is empty or malformed
Malformed(d, m) ==
    \/ d.kind = "notlist"
    \/ d.kind = "list" /\ d.items = <<>>
    \/ d.kind = "list" /\ \E i \in 1..Len(d.items) :
                              EntryMalformed(d.items[i], SelectedBucket(m))

\* C6: on a non-empty list of market entries has_no_trades_last_x(mins)
\* reports inactive iff buys + sells of the bucket selected by mins (<= 5: m5,
\* <= 60: h1, otherwise h24), summed over all entries, is 0, and active iff it
\* is positive; the other buckets do not matter.
C6_Classification ==
    /\ pc = "fn_done"
    /\ ~MOCK_INACTIVE
    /\ data.kind = "list"
    /\ data.items # <<>>
    /\ \A i \in 1..Len(data.items) : ReadsCleanly(data.items[i], SelectedBucket(mins))
    => verdict = IF TotalActivity(data.items, SelectedBucket(mins)) = 0
                 THEN "TRUE" ELSE "FALSE"

\* C6 witness: two entries, window 60 (bucket h1), inactive although another
\* bucket of an entry holds a positive count.
C6_Witness ==
    /\ pc = "fn_done"
    /\ ~MOCK_INACTIVE
    /\ mins = 60
    /\ data.kind = "list"
    /\ Len(data.items) = 2
    /\ verdict = "TRUE"
    /\ \E i \in 1..2 : BucketActivity(data.items[i], "h24") > 0

\* C7 as stated: whenever the response is empty or malformed the monitor
\* reports inactive and the cycle goes on to the primary buy attempt.
C7_FailOpen ==
    [][pc = "classify" /\ pc' # "classify" /\ Malformed(data, mins)
          => verdict' = "TRUE" /\ pc' = "admit" /\ attempt' = "primary"]_vars

\* the process is in the polling loop
LoopMode == ~FORCE_BUY_NOW /\ pc \notin {"start", "aborted"}

\* C8: in loop mode no step ends the process, every cycle -- no-op, buy,
\* primary failure, fallback failure, exception of the activity check --
\* reaches the sleep, and the sleep is followed by a new activity check and
\* by nothing else.
C8_LoopNeverDies ==
    /\ [][LoopMode => /\ pc' \notin {"exited", "aborted", "start", "forced"}
                      /\ (pc = "sleep" => pc' \in {"sleep", "check"})
                      /\ (pc' = "check" => pc \in {"sleep", "check"})]_vars
    /\ (LoopMode /\ pc # "sleep" ~> pc = "sleep")
    /\ (pc = "sleep" ~> pc = "check")

\* C8 witness: the cycle of a failed fallback, and one in which the activity
\* check raised, reached the sleep.
C8_Witness ==
    /\ LoopMode
    /\ pc = "sleep"
    /\ \/ verdict = "RAISE"
       \/ attempt = "fallback" /\ err = "send_fail"

\* C9: a cycle makes at most two do_keepalive_once calls, the primary with
\* MICRO_BUY_USD and at most one fallback with FALLBACK_BUY_USD; the fallback
\* runs only after the primary raised, with MICRO_BUY_USD < FALLBACK_BUY_USD
\* and the fallback amount admissible; a failed fallback ends the cycle.
C9_BoundedRetry ==
    /\ calls["do_keepalive_once"] <= 2
    /\ attempt = "primary"
         => calls["do_keepalive_once"] = 1 /\ usd_amount = MICRO_BUY_USD
    /\ attempt = "fallback"
         => /\ calls["do_keepalive_once"] = 2
            /\ usd_amount = FALLBACK_BUY_USD
            /\ primary_err # "none"
            /\ MICRO_BUY_USD < FALLBACK_BUY_USD
            /\ fallback_gate = "open"
            /\ pc \in AfterAdmission \cup {"admit"}
                 => TrailingSum(last_spend_events, now) + FALLBACK_BUY_USD
                        <= MAX_DAILY_USD
            /\ pc \in AfterAdmission \cup {"admit", "sleep"}
    /\ fallback_gate # "open" => attempt # "fallback"

\* C9 witness: primary and fallback both failed and the cycle ended.
C9_Witness ==
    /\ attempt = "fallback"
    /\ pc = "sleep"
    /\ err # "none"
    /\ primary_err # "none"
    /\ calls["do_keepalive_once"] = 2

\* C10: with FORCE_BUY_NOW set the process makes one do_keepalive_once call
\* with MICRO_BUY_USD after the wallet check, never consults the monitor,
\* never tries the fallback, never enters the loop, and the end of the
\* attempt -- return or exception -- ends the process.
C10_ForcedOneShot ==
    /\ [](FORCE_BUY_NOW =>
            /\ pc \notin {"check", "classify", "sleep"}
            /\ verdict = "NONE"
            /\ attempt \in {"none", "forced"}
            /\ fallback_gate = "none"
            /\ calls["do_keepalive_once"] <= 1
            /\ attempt = "forced" => usd_amount = MICRO_BUY_USD
            /\ pc = "exited" => attempt = "forced" /\ calls["do_keepalive_once"] = 1)
    /\ [][FORCE_BUY_NOW /\ pc \in {"return", "failed"} /\ pc' # pc
            => pc' = "exited"]_vars
    /\ (FORCE_BUY_NOW ~> pc \in {"exited", "aborted"})

\* C10 witness: the forced attempt failed and the process ended.
C10_Witness ==
    /\ FORCE_BUY_NOW
    /\ pc = "exited"
    /\ err # "none"

----------------------------------------------------------------------------
(* The HTTP wrappers *)

\* the attempt gave a response with status 200
Yields200(r) == r.kind = "response" /\ r.status = "200"

\* every attempt of the call so far satisfies Failed
AllFailed(Failed(_)) == \A i \in 1..Len(h_log) : Failed(h_log[i])

\* the attempt did not yield status 200
FailedAsStated(r) == ~Yields200(r)

\* the attempt gave status 200 with a body that parses
Parses200(r) == Yields200(r) /\ r.json

\* the attempt gave another status, an exception or a body that does not parse
FailedInCode(r) == ~Parses200(r)

\* C11 as stated: a wrapper call issues at most MAX_RETRIES requests, returns
\* the body of the first attempt that yields status 200 and issues no request
\* after it, and raises only when MAX_RETRIES attempts all gave another status
\* or an exception, the error carrying the status and body of the last one.
C11_Original ==
    /\ h_requests <= MAX_RETRIES
    /\ h_requests = Len(h_log)
    /\ \A i \in 1..Len(h_log) :
          Yields200(h_log[i])
          => i = Len(h_log) /\ h_pc = "returned" /\ h_result = h_log[i].text
    /\ h_pc = "returned" => Yields200(h_log[Len(h_log)])
    /\ h_pc = "raised"
       => /\ Len(h_log) = MAX_RETRIES
          /\ AllFailed(FailedAsStated)
          /\ h_error = [status |-> h_log[MAX_RETRIES].status,
                        text |-> h_log[MAX_RETRIES].text]
    /\ Len(h_log) = MAX_RETRIES /\ AllFailed(FailedAsStated)
       => h_pc \in {"sleep", "raise", "raised"}

\* C11: a wrapper call issues at most MAX_RETRIES requests; it returns the
\* body of the first attempt that yields status 200 with a body that parses,
\* and issues no request after it; an attempt fails when it gives another
\* status, raises, or gives status 200 with a body that does not parse; the
\* call raises only when MAX_RETRIES attempts all failed, and the error then
\* carries the status and body of the last attempt if that was a response
\* with another status, and "EXC" with the exception text otherwise.
C11_RetryBound ==
    /\ h_requests <= MAX_RETRIES
    /\ h_requests = Len(h_log)
    /\ \A i \in 1..Len(h_log) :
          Parses200(h_log[i])
          => i = Len(h_log) /\ h_pc = "returned" /\ h_result = h_log[i].text
    /\ h_pc = "returned" => Parses200(h_log[Len(h_log)])
    /\ h_pc = "raised"
       => /\ Len(h_log) = MAX_RETRIES
          /\ AllFailed(FailedInCode)
          /\ h_error = LET r == h_log[MAX_RETRIES]
                       IN  IF Yields200(r) \/ r.kind = "exception"
                           THEN [status |-> "EXC",
                                 text |-> IF Yields200(r) THEN JsonError ELSE r.text]
                           ELSE [status |-> r.status, text |-> r.text]
    /\ Len(h_log) = MAX_RETRIES /\ AllFailed(FailedInCode)
       => h_pc \in {"sleep", "raise", "raised"}

\* the third attempt returns after a 200 whose body did not parse and a 500
C11_Witness ==
    /\ h_pc = "returned"
    /\ h_requests = MAX_RETRIES
    /\ Yields200(h_log[1]) /\ ~h_log[1].json
    /\ h_log[2].status = "500"
    /\ h_result = h_log[3].text

\* C20: the delay is taken between consecutive attempts only: a call that
\* made k attempts has taken k - 1 delays when it returns or raises.
C20_DelayBetweenAttempts ==
    h_pc \in {"returned", "raised"} => h_sleeps = h_requests - 1

----------------------------------------------------------------------------
(* The quote converter *)

\* the whole lamports in a target of c cents at the probe answer out in
\* exact arithmetic (0 for a target that is not positive), as a table over
\* the inputs alone
QuoteTable ==
    [p \in QuoteInputs |->
        LET price == IF p[2] >= PriceFloorMilli THEN p[2] ELSE PriceFloorMilli
        IN  IF p[1] <= 0 THEN 0 ELSE ScaledDiv(10 * p[1], price, LamportsDigits)]

\* C12: for every target amount and every probe outAmount, zero and negative
\* ones included, the converter returns an integer >= 1, and the result is the
\* same for the same (target, outAmount) whatever the rest of the state: it
\* is the exact number of whole lamports or, by the rounding of the float
\* operations, one unit beside it (0.30 USD at outAmount 192000 gives
\* 1562499, one below the exact 1562500), and never below 1.
C12_QuoteResult ==
    pc = "quote_done"
    => LET exact == QuoteTable[<<usd_amount, outAmount>>]
       IN  /\ amt_raw \in Nat
           /\ amt_raw >= 1
           /\ amt_raw >= exact - 1
           /\ amt_raw <= (IF exact >= 1 THEN exact + 1 ELSE 1)
           /\ usd_amount = 30 /\ outAmount = 192000 => amt_raw = 1562499
           /\ usd_amount = 30 /\ outAmount = 150000 => amt_raw = 2000000

\* the converter returned 1 for a zero target, and the floor price was used
\* for a probe answer of 0
C12_Witness ==
    /\ pc = "quote_done"
    /\ \/ usd_amount = 0 /\ amt_raw = 1
       \/ outAmount = 0 /\ usd_amount = 2 /\ amt_raw = 2000000000

----------------------------------------------------------------------------
(* Startup *)

\* no activity check, quote request, swap or spend has happened in the run
NothingDone ==
    /\ calls = NoCalls
    /\ verdict = "NONE"
    /\ data = NoData
    /\ attempt = "none"
    /\ last_spend_events = <<>>

\* C13 as stated: in every run the wallet check is performed exactly once
\* before the first activity check or buy attempt, and a run whose check
\* failed is aborted with nothing done.
C13_Original ==
    /\ pc # "start" => Len(wallet_log) = 1
    /\ pc \notin {"start", "aborted"} => wallet_log = <<"ok">>
    /\ pc = "aborted" => wallet_log = <<"failed">> /\ NothingDone

\* C13: in every run without DRY_RUN the wallet check is performed exactly
\* once before the first activity check or buy attempt, and a run whose check
\* failed is aborted with nothing done; with DRY_RUN the check is skipped, the
\* run never aborts at startup and goes on to activity checks and quotes.
C13_StartupGate ==
    /\ ~DRY_RUN
       => /\ pc # "start" => Len(wallet_log) = 1
          /\ pc \notin {"start", "aborted"} => wallet_log = <<"ok">>
          /\ pc = "aborted" => wallet_log = <<"failed">> /\ NothingDone
    /\ DRY_RUN => wallet_log = <<>> /\ pc # "aborted"
    /\ pc = "start" => wallet_log = <<>> /\ NothingDone

\* a run without DRY_RUN whose wallet check failed was aborted at startup
C13_Witness ==
    /\ ~DRY_RUN
    /\ pc = "aborted"
    /\ wallet_log = <<"failed">>
    /\ NothingDone

----------------------------------------------------------------------------
(* Pruning *)

\* C14: at every admission check no ledger event older than 24 hours is left
\* in the ledger whose sum is compared against the cap, whatever the order of
\* the events in the ledger.
C14_PruningComplete ==
    [][calls'["can_spend_usd"] > calls["can_spend_usd"]
       => \A i \in 1..Len(last_spend_events') :
             ~(last_spend_events'[i].ts < Cutoff(now))]_vars

----------------------------------------------------------------------------
(* Inside one buy attempt *)

\* the steps of the attempt named op
StepsOf(op) == {i \in 1..Len(trace) : trace[i].op = op}
\* the attempt made the step
Did(op, res) == \E i \in 1..Len(trace) : trace[i] = Step(op, res)
\* an event was appended to the ledger in the step
Appended == ~IsSuffix(last_spend_events', last_spend_events)

\* C15: a ledger event is appended only when a build_and_send_swap that was
\* not simulated returned a confirmation identifier, it carries the attempt's
\* USD amount, and an attempt that fails at any stage appends nothing.
C15_RecordOnlyGenuine ==
    /\ [](err # "none" => ~Did("record_spend_usd", "ok"))
    /\ [][/\ (Appended \/ calls'["record_spend_usd"] > calls["record_spend_usd"])
             => /\ ~DRY_RUN
                /\ pc = "return"
                /\ sig = "tx-sig"
                /\ err = "none"
                /\ Did("send_raw_transaction", "sig")
                /\ last_spend_events'
                     = Append(last_spend_events, SpendEvent(now, usd_amount))
          /\ pc' = "failed" => ~Appended]_vars

\* the fallback attempt submitted its swap, got an identifier and recorded
\* its own amount
C15_Witness ==
    /\ attempt = "fallback"
    /\ pc = "sleep"
    /\ Did("record_spend_usd", "ok")
    /\ sig = "tx-sig"
    /\ last_spend_events[Len(last_spend_events)].amount = FALLBACK_BUY_USD
    /\ FALLBACK_BUY_USD # MICRO_BUY_USD

\* stage of a step: guard, quote converter, swap executor, recording
StageOf(op) ==
    CASE op = "can_spend_usd" -> 1
      [] op = "quote_get" -> 2
      [] op \in {"route_get", "swap_post", "sign", "send_raw_transaction"} -> 3
      [] op = "record_spend_usd" -> 4
\* outcomes after which the attempt goes on
GoesOn == {"ok", "payload", "sig"}

\* C16: within every buy attempt the guard check comes first, then the quote
\* converter's request, then the swap executor, then recording; when the guard
\* rejects, the attempt fails with the daily-cap error and issues no quote,
\* swap-build or submission.
C16_AdmissionFirst ==
    /\ pc \in AfterAdmission \/ (AttemptOver /\ attempt # "none") => Len(trace) >= 1
    /\ Len(trace) >= 1 => trace[1].op = "can_spend_usd"
    /\ StepsOf("can_spend_usd") \subseteq {1}
    /\ StepsOf("quote_get") \subseteq {2}
    /\ \A i \in 1..Len(trace) : \A j \in 1..Len(trace) :
          i < j => /\ StageOf(trace[i].op) <= StageOf(trace[j].op)
                   /\ trace[i].res \in GoesOn
    /\ Did("can_spend_usd", "reject")
       => /\ trace = <<Step("can_spend_usd", "reject")>>
          /\ err = "cap"
          /\ sig = "none"
          /\ pc \in {"failed", "sleep", "exited"}
    /\ err = "cap" => trace = <<Step("can_spend_usd", "reject")>>

\* the guard rejected the primary attempt, which failed with the cap error
\* after that single step, a spend being in the ledger already
C16_Witness ==
    /\ attempt = "primary"
    /\ pc = "failed"
    /\ err = "cap"
    /\ trace = <<Step("can_spend_usd", "reject")>>
    /\ last_spend_events # <<>>
    /\ calls["quote_get"] = 0

\* C17: without DRY_RUN a transaction is submitted only after the route quote
\* succeeded and the swap-build response had a payload; a missing payload
\* fails the call before signing and submission; a submission that returns
\* no identifier fails the call.
C17_ExecutorOrder ==
    /\ \A i \in StepsOf("send_raw_transaction") :
          /\ ~DRY_RUN
          /\ i >= 3
          /\ trace[i - 1] = Step("swap_post", "payload")
          /\ trace[i - 2] = Step("route_get", "ok")
    /\ \A i \in StepsOf("swap_post") :
          /\ ~DRY_RUN
          /\ i >= 2
          /\ trace[i - 1] = Step("route_get", "ok")
    /\ \A i \in StepsOf("sign") :
          /\ i = Len(trace)
          /\ trace[i - 1] = Step("swap_post", "payload")
          /\ StepsOf("send_raw_transaction") = {}
          /\ err = "sign_fail"
          /\ sig = "none"
    /\ Did("swap_post", "no_tx")
       => /\ StepsOf("send_raw_transaction") = {}
          /\ StepsOf("sign") = {}
          /\ trace[Len(trace)] = Step("swap_post", "no_tx")
          /\ err = "no_tx"
          /\ sig = "none"
    /\ Did("send_raw_transaction", "no_sig")
       => /\ trace[Len(trace)] = Step("send_raw_transaction", "no_sig")
          /\ err = "no_sig"
          /\ sig = "none"
    /\ sig = "tx-sig" => Did("send_raw_transaction", "sig")
    /\ Cardinality(StepsOf("send_raw_transaction")) <= 1

\* a submission made after the route quote and a swap-build payload came
\* back without an identifier, and the attempt failed
C17_Witness ==
    /\ ~DRY_RUN
    /\ pc = "failed"
    /\ err = "no_sig"
    /\ Len(trace) >= 3
    /\ trace[Len(trace)] = Step("send_raw_transaction", "no_sig")
    /\ trace[Len(trace) - 1] = Step("swap_post", "payload")

\* C18: a cycle (and the forced-buy path) records at most one spend: the
\* ledger is what is left of the ledger at the start of the cycle, followed
\* by nothing or by one event of MICRO_BUY_USD or FALLBACK_BUY_USD.
C18_OneSpendPerCycle ==
    /\ calls["record_spend_usd"] <= 1
    /\ \/ /\ calls["record_spend_usd"] = 0
          /\ IsSuffix(last_spend_events, cycle_events)
       \/ /\ calls["record_spend_usd"] = 1
          /\ Len(last_spend_events) >= 1
          /\ IsSuffix(SubSeq(last_spend_events, 1, Len(last_spend_events) - 1),
                      cycle_events)
          /\ last_spend_events[Len(last_spend_events)].amount
                \in {MICRO_BUY_USD, FALLBACK_BUY_USD}
          /\ last_spend_events[Len(last_spend_events)].amount
                = (IF attempt = "fallback" THEN FALLBACK_BUY_USD ELSE MICRO_BUY_USD)

\* a cycle that began with a spend in the ledger ended with exactly one more
\* event, the fallback's, after the primary attempt failed
C18_Witness ==
    /\ pc = "sleep"
    /\ attempt = "fallback"
    /\ primary_err \in SwapStageErrs
    /\ calls["record_spend_usd"] = 1
    /\ Len(cycle_events) = 1
    /\ Len(last_spend_events) = 2
    /\ MICRO_BUY_USD < FALLBACK_BUY_USD

\* C19 as stated: in a cycle whose primary attempt was rejected by the guard
\* the fallback is never admitted, no swap is executed and nothing is recorded.
C19_Original ==
    primary_err = "cap"
    => /\ fallback_gate = "shut"
       /\ attempt = "primary"
       /\ calls["route_get"] = 0
       /\ calls["swap_post"] = 0
       /\ calls["send_raw_transaction"] = 0
       /\ calls["record_spend_usd"] = 0

\* C19: in a cycle whose primary attempt was rejected by the guard, the
\* fallback is not admitted unless a ledger event expired between the
\* primary's admission check and the check of the fallback condition; when
\* that check prunes nothing the cycle ends with no swap and nothing recorded.
C19_RejectionFinal ==
    /\ [][pc = "failed" /\ attempt = "primary" /\ err = "cap" /\ pc' # pc
          /\ last_spend_events' = last_spend_events
          => /\ pc' = "sleep"
             /\ fallback_gate' = "shut"
             /\ attempt' = "primary"]_vars
    /\ [](primary_err = "cap" /\ fallback_gate = "shut"
          => /\ attempt = "primary"
             /\ calls["route_get"] = 0
             /\ calls["swap_post"] = 0
             /\ calls["send_raw_transaction"] = 0
             /\ calls["record_spend_usd"] = 0
             /\ IsSuffix(last_spend_events, cycle_events))

\* the guard rejected the micro amount, the larger fallback was wanted and
\* refused too, and the cycle ended with nothing recorded
C19_Witness ==
    /\ pc = "sleep"
    /\ primary_err = "cap"
    /\ fallback_gate = "shut"
    /\ MICRO_BUY_USD < FALLBACK_BUY_USD
    /\ calls["can_spend_usd"] = 2
    /\ calls["record_spend_usd"] = 0
====
